---- MODULE Spec2Model ----
(***************************************************************************)
(* Release pipeline of orbit-it: ReleaseService.execute and the two        *)
(* versioning strategies (packages/core/src/lib/services/                  *)
(* release-service.ts), with the git, GitHub and filesystem collaborators  *)
(* it drives.                                                              *)
(*                                                                         *)
(* Strings that the code inspects character by character (paths, commit    *)
(* messages) are sequences of one-character strings; strings it only       *)
(* concatenates are TLA+ strings.  A version string is kept in parsed form *)
(* (what new SemVer(s) yields) and printed by VersionString.               *)
(***************************************************************************)
EXTENDS Integers, Sequences, FiniteSets, TLC

(***************************************************************************)
(* Bounds                                                                  *)
(***************************************************************************)
MaxCommits == 2      \* longest commit log git returns
MaxTags == 1         \* most tags present before the run
MaxGroup == 3        \* longest commit list handed to the notes generator
MaxPart == 2         \* version numbers 0..MaxPart are tried, besides 9 and 99

(***************************************************************************)
(* JavaScript values                                                       *)
(***************************************************************************)
Undefined == "undefined"

RECURSIVE Str(_)
\* the string made of the characters of cs
Str(cs) == IF cs = <<>> THEN "" ELSE Head(cs) \o Str(Tail(cs))

\* String.prototype.startsWith
StartsWith(s, p) == Len(p) <= Len(s) /\ SubSeq(s, 1, Len(p)) = p

RECURSIVE LastSlash(_, _)
LastSlash(p, i) ==
  IF i = 0 THEN 0 ELSE IF p[i] = "/" THEN i ELSE LastSlash(p, i - 1)

\* path.basename for a path without trailing slash
Basename(p) == SubSeq(p, LastSlash(p, Len(p)) + 1, Len(p))

(***************************************************************************)
(* Errors.  kind "OrbitItError" carries message and content hint, kind     *)
(* "Error" is any other Error instance, kind "none" is no error            *)
(* (undefined).                                                            *)
(***************************************************************************)
NoError == [kind |-> "none", message |-> "", content |-> ""]
OrbitItError(m, c) == [kind |-> "OrbitItError", message |-> m, content |-> c]
PlainError(m) == [kind |-> "Error", message |-> m, content |-> ""]

\* the catch blocks of release-service.ts: an OrbitItError is kept, any
\* other Error is wrapped with the given hint, anything else leaves error
\* undefined
\* a catch block that forgets to keep an OrbitItError
CatchErrorDroppingOrbitIt(found, hint) ==
  IF found.kind = "Error" THEN OrbitItError(found.message, hint) ELSE NoError

\* a catch block that handles OrbitItError only
CatchErrorOnlyOrbitIt(found, hint) ==
  IF found.kind = "OrbitItError" THEN found ELSE NoError

CatchError(found, hint) ==
  IF found.kind = "OrbitItError" THEN found
  ELSE IF found.kind = "Error" THEN OrbitItError(found.message, hint)
  ELSE NoError

(***************************************************************************)
(* semver                                                                  *)
(***************************************************************************)
\* a prerelease identifier: a number, or the characters of a word
NumId(n) == [isNum |-> TRUE, n |-> n, s |-> <<>>]
StrId(s) == [isNum |-> FALSE, n |-> 0, s |-> s]

\* a parseable version string
SemVer(ma, mi, pa, pre) ==
  [valid |-> TRUE, raw |-> "", major |-> ma, minor |-> mi, patch |-> pa,
   prerelease |-> pre]

\* a value that new SemVer() rejects; raw is how it prints in a template
NotSemVer(raw) ==
  [valid |-> FALSE, raw |-> raw, major |-> 0, minor |-> 0, patch |-> 0,
   prerelease |-> <<>>]

NullVersion == NotSemVer("null")       \* JS null
MissingVersion == NotSemVer("")        \* absent field / empty string

\* JS truthiness of a version value
Truthy(v) == v.valid \/ v.raw \notin {"", "null", "undefined"}

IdString(id) == IF id.isNum THEN ToString(id.n) ELSE Str(id.s)

RECURSIVE JoinIds(_)
JoinIds(pre) ==
  IF Len(pre) = 0 THEN ""
  ELSE IF Len(pre) = 1 THEN IdString(pre[1])
  ELSE IdString(pre[1]) \o "." \o JoinIds(Tail(pre))

\* SemVer.format(), and template-literal printing of a non-version
VersionString(v) ==
  IF ~v.valid THEN v.raw
  ELSE ToString(v.major) \o "." \o ToString(v.minor) \o "." \o
       ToString(v.patch) \o
       (IF Len(v.prerelease) > 0 THEN "-" \o JoinIds(v.prerelease) ELSE "")

\* the characters of a version: what SemVer.format() builds and what
\* new SemVer(string) reads
Digits == <<"0", "1", "2", "3", "4", "5", "6", "7", "8", "9">>

RECURSIVE PrintNat(_)
PrintNat(n) ==
  IF n < 10 THEN <<Digits[n + 1]>>
  ELSE PrintNat(n \div 10) \o <<Digits[(n % 10) + 1]>>

IsDigit(c) == \E i \in 1..10 : Digits[i] = c
DigitValue(c) == (CHOOSE i \in 1..10 : Digits[i] = c) - 1

RECURSIVE ParseNat(_)
ParseNat(cs) ==
  IF Len(cs) = 1 THEN DigitValue(cs[1])
  ELSE ParseNat(SubSeq(cs, 1, Len(cs) - 1)) * 10 + DigitValue(cs[Len(cs)])

\* 0|[1-9]\d*
IsNumeric(cs) ==
  /\ cs # <<>>
  /\ \A i \in 1..Len(cs) : IsDigit(cs[i])
  /\ Len(cs) = 1 \/ cs[1] # "0"

Letters ==
  {"a", "b", "c", "d", "e", "f", "g", "h", "i", "j", "k", "l", "m", "n", "o",
   "p", "q", "r", "s", "t", "u", "v", "w", "x", "y", "z"}

\* a prerelease identifier: 0|[1-9]\d*|\d*[a-zA-Z-][a-zA-Z0-9-]*, over
\* the lower-case letters
IsIdentifier(cs) ==
  /\ cs # <<>>
  /\ \A i \in 1..Len(cs) : IsDigit(cs[i]) \/ cs[i] \in Letters \/ cs[i] = "-"
  /\ (\A i \in 1..Len(cs) : IsDigit(cs[i])) => IsNumeric(cs)

\* index of the first c in cs, 0 when there is none
FirstAt(cs, c) ==
  IF \E i \in 1..Len(cs) : cs[i] = c
  THEN CHOOSE i \in 1..Len(cs) : cs[i] = c /\ \A j \in 1..(i - 1) : cs[j] # c
  ELSE 0

RECURSIVE Split(_, _)
\* String.prototype.split
Split(cs, c) ==
  IF FirstAt(cs, c) = 0 THEN <<cs>>
  ELSE <<SubSeq(cs, 1, FirstAt(cs, c) - 1)>>
       \o Split(SubSeq(cs, FirstAt(cs, c) + 1, Len(cs)), c)

IdChars(id) == IF id.isNum THEN PrintNat(id.n) ELSE id.s

RECURSIVE JoinIdChars(_)
JoinIdChars(pre) ==
  IF Len(pre) = 1 THEN IdChars(pre[1])
  ELSE IdChars(pre[1]) \o <<".">> \o JoinIdChars(Tail(pre))

\* SemVer.format() of a parsed version
Format(v) ==
  PrintNat(v.major) \o <<".">> \o PrintNat(v.minor) \o <<".">>
  \o PrintNat(v.patch)
  \o (IF Len(v.prerelease) > 0 THEN <<"-">> \o JoinIdChars(v.prerelease)
      ELSE <<>>)

\* new SemVer(string): v?MAJOR.MINOR.PATCH(-PRERELEASE)?, no build part
Parse(cs) ==
  LET body == IF cs # <<>> /\ cs[1] = "v" THEN Tail(cs) ELSE cs
      dash == FirstAt(body, "-")
      core == IF dash = 0 THEN body ELSE SubSeq(body, 1, dash - 1)
      nums == Split(core, ".")
      ids == IF dash = 0 THEN <<>>
             ELSE Split(SubSeq(body, dash + 1, Len(body)), ".")
  IN IF /\ Len(nums) = 3
        /\ \A i \in 1..3 : IsNumeric(nums[i])
        /\ \A i \in 1..Len(ids) : IsIdentifier(ids[i])
     THEN SemVer(ParseNat(nums[1]), ParseNat(nums[2]), ParseNat(nums[3]),
                 [i \in 1..Len(ids) |->
                    IF IsNumeric(ids[i]) THEN NumId(ParseNat(ids[i]))
                    ELSE StrId(ids[i])])
     ELSE NotSemVer(Str(cs))

\* SemVer.inc('pre') without identifier: bump the last numeric identifier,
\* or append 0 when there is none
IncPre(pre) ==
  IF Len(pre) = 0 THEN <<NumId(0)>>
  ELSE IF \E i \in 1..Len(pre) : pre[i].isNum
       THEN LET i == CHOOSE k \in 1..Len(pre) :
                       /\ pre[k].isNum
                       /\ \A j \in (k + 1)..Len(pre) : ~pre[j].isNum
            IN [pre EXCEPT ![i].n = @ + 1]
       ELSE Append(pre, NumId(0))

\* a patch bump that counts up whatever the prerelease is
IncPatchAlways(v) == [v EXCEPT !.patch = @ + 1, !.prerelease = <<>>]

IncPatch(v) ==
  [v EXCEPT !.patch = IF Len(v.prerelease) = 0 THEN @ + 1 ELSE @,
            !.prerelease = <<>>]

IncMinor(v) ==
  [v EXCEPT !.minor = IF v.patch # 0 \/ Len(v.prerelease) = 0
                      THEN @ + 1 ELSE @,
            !.patch = 0, !.prerelease = <<>>]

IncMajor(v) ==
  [v EXCEPT !.major = IF v.minor # 0 \/ v.patch # 0 \/ Len(v.prerelease) = 0
                      THEN @ + 1 ELSE @,
            !.minor = 0, !.patch = 0, !.prerelease = <<>>]

IncPrerelease(v) ==
  LET b == IF Len(v.prerelease) = 0 THEN IncPatch(v) ELSE v
  IN [b EXCEPT !.prerelease = IncPre(b.prerelease)]

\* semver.inc(version, release): null when version does not parse
SemverInc(v, type) ==
  IF ~v.valid THEN NullVersion
  ELSE CASE type = "major" -> IncMajor(v)
         [] type = "minor" -> IncMinor(v)
         [] type = "patch" -> IncPatch(v)
         [] type = "prerelease" -> IncPrerelease(v)

\* semver.inc on strings: the answer is the formatted version, or null
SemverIncString(cs, type) ==
  LET new == SemverInc(Parse(cs), type)
  IN IF new.valid THEN Format(new) ELSE <<"n","u","l","l">>

\* a prerelease flag that is never set
HasPrereleaseNever(v) == FALSE

\* semver.prerelease(version) !== null
HasPrerelease(v) == v.valid /\ Len(v.prerelease) > 0

ReleaseTypes == {"major", "minor", "patch", "prerelease"}

(***************************************************************************)
(* Commits, classification and release notes                               *)
(***************************************************************************)
Commit(h, m, an, ae) ==
  [hash |-> h, message |-> m, author_name |-> an, author_email |-> ae]

\* a pattern that also knows revert
RegexTypesWithRevert ==
  << <<"f","e","a","t">>, <<"f","i","x">>, <<"d","o","c","s">>,
     <<"s","t","y","l","e">>, <<"r","e","f","a","c","t","o","r">>,
     <<"p","e","r","f">>, <<"t","e","s","t">>, <<"c","h","o","r","e">>,
     <<"r","e","v","e","r","t">> >>

\* the alternatives of commitMessageRegex, in the order of the pattern
RegexTypes ==
  << <<"f","e","a","t">>, <<"f","i","x">>, <<"d","o","c","s">>,
     <<"s","t","y","l","e">>, <<"r","e","f","a","c","t","o","r">>,
     <<"p","e","r","f">>, <<"t","e","s","t">>, <<"c","h","o","r","e">> >>

\* the keys of the grouped record, in insertion order
CommitTypes ==
  <<"feat", "fix", "docs", "style", "refactor", "perf", "test", "chore",
    "revert", "other">>

\* (\([^)]*\))?: matched at position i of m
ScopeColonAt(m, i) ==
  \/ i <= Len(m) /\ m[i] = ":"
  \/ /\ i <= Len(m) /\ m[i] = "("
     /\ \E j \in (i + 1)..Len(m) :
          /\ m[j] = ")"
          /\ \A k \in (i + 1)..(j - 1) : m[k] # ")"
          /\ j + 1 <= Len(m) /\ m[j + 1] = ":"

\* commitMessage.match(commitMessageRegex)
RegexMatches(m, t) == StartsWith(m, t) /\ ScopeColonAt(m, Len(t) + 1)

\* the type groupCommitsByType files a message under
ClassifyMessage(m) ==
  IF \E i \in 1..Len(RegexTypes) : RegexMatches(m, RegexTypes[i])
  THEN Str(RegexTypes[CHOOSE i \in 1..Len(RegexTypes) :
                        /\ RegexMatches(m, RegexTypes[i])
                        /\ \A j \in 1..(i - 1) : ~RegexMatches(m, RegexTypes[j])])
  ELSE "other"

TypeSet == {CommitTypes[i] : i \in 1..Len(CommitTypes)}

\* const grouped = { feat: [], fix: [], ... other: [] }
EmptyGroups == [t \in TypeSet |-> <<>>]

RECURSIVE PushCommitsInFront(_, _)
\* a loop that puts each commit in front of its bucket
PushCommitsInFront(grouped, commits) ==
  IF commits = <<>> THEN grouped
  ELSE PushCommitsInFront(
         [grouped EXCEPT ![ClassifyMessage(Head(commits).message)] =
            <<Head(commits)>> \o @],
         Tail(commits))

RECURSIVE PushCommits(_, _)
\* for (const commit of commits) { ... grouped[type].push(commit) }
PushCommits(grouped, commits) ==
  IF commits = <<>> THEN grouped
  ELSE PushCommits(
         [grouped EXCEPT ![ClassifyMessage(Head(commits).message)] =
            Append(@, Head(commits))],
         Tail(commits))

\* groupCommitsByType: every key present, commits appended in input order
GroupCommitsByType(commits) == PushCommits(EmptyGroups, commits)

\* a label table without the entry for fix
GetCommitTypeLabelWithoutFix(type) ==
  CASE type = "feat" -> ":rocket: Features"
    [] type = "perf" -> ":zap: Performance Improvements"
    [] type = "refactor" -> ":recycle: Code Refactoring"
    [] type = "docs" -> ":books: Documentation"
    [] type = "style" -> ":lipstick: Styles"
    [] type = "test" -> ":test_tube: Tests"
    [] type = "chore" -> ":wrench: Chores"
    [] OTHER -> ":memo: Other Changes"

\* getCommitTypeLabel; the emoji that starts each label is written as a
\* shortcode
GetCommitTypeLabel(type) ==
  CASE type = "feat" -> ":rocket: Features"
    [] type = "fix" -> ":bug: Bug Fixes"
    [] type = "perf" -> ":zap: Performance Improvements"
    [] type = "refactor" -> ":recycle: Code Refactoring"
    [] type = "docs" -> ":books: Documentation"
    [] type = "style" -> ":lipstick: Styles"
    [] type = "test" -> ":test_tube: Tests"
    [] type = "chore" -> ":wrench: Chores"
    [] OTHER -> ":memo: Other Changes"

\* commit.author_name || commit.author_email
AuthorOf(c) == IF c.author_name # "" THEN c.author_name ELSE c.author_email

\* the lines of the release notes: the title, the header of a section, the
\* bullet of a commit, an empty line
NoCommit == Commit("", <<>>, "", "")
TitleLine == [kind |-> "title", type |-> "", commit |-> NoCommit]
HeaderLine(type) == [kind |-> "header", type |-> type, commit |-> NoCommit]
CommitLine(c) == [kind |-> "commit", type |-> "", commit |-> c]
BlankLine == [kind |-> "blank", type |-> "", commit |-> NoCommit]

\* a section that is emitted for an empty bucket too
SectionLinesAlways(type, groupCommits) ==
  <<HeaderLine(type)>>
  \o [i \in 1..Len(groupCommits) |-> CommitLine(groupCommits[i])]
  \o <<BlankLine>>

\* if (groupCommits.length > 0) { header; one bullet per commit; '\n' }
SectionLines(type, groupCommits) ==
  IF Len(groupCommits) > 0
  THEN <<HeaderLine(type)>>
       \o [i \in 1..Len(groupCommits) |-> CommitLine(groupCommits[i])]
       \o <<BlankLine>>
  ELSE <<>>

RECURSIVE Sections(_, _)
\* for (const [type, groupCommits] of Object.entries(groupedCommits))
Sections(grouped, i) ==
  IF i > Len(CommitTypes) THEN <<>>
  ELSE SectionLines(CommitTypes[i], grouped[CommitTypes[i]])
       \o Sections(grouped, i + 1)

\* the lines generateReleaseNotes emits for the commits
NoteLines(commits) ==
  <<TitleLine, BlankLine>> \o Sections(GroupCommitsByType(commits), 1)

\* the text of a line
RenderLine(tagName, l) ==
  CASE l.kind = "title" -> "## Release Notes for " \o tagName
    [] l.kind = "header" -> "### " \o GetCommitTypeLabel(l.type)
    [] l.kind = "commit" ->
         "- " \o Str(l.commit.message) \o " by @" \o AuthorOf(l.commit)
    [] OTHER -> ""

RECURSIVE RenderLines(_, _)
\* every line is followed by a newline
RenderLines(tagName, lines) ==
  IF lines = <<>> THEN ""
  ELSE RenderLine(tagName, Head(lines)) \o "\n"
       \o RenderLines(tagName, Tail(lines))

GenerateReleaseNotes(tagName, commits) ==
  RenderLines(tagName, NoteLines(commits))

(***************************************************************************)
(* The working tree, the configuration and the git history                 *)
(***************************************************************************)
DirA == <<"a">>
DirAB == <<"a", "b">>
Dirs == {DirA, DirAB}
Star == <<"*">>

FileNames == {"package.json", "pyproject.toml", "setup.py", "__init__.py"}
PythonFileNames == <<"pyproject.toml", "setup.py", "__init__.py">>

\* path.join(dir, name)
Join(dir, name) == [dir |-> dir, name |-> name]
Files == {Join(d, n) : d \in Dirs, n \in FileNames}

\* what a file holds.  kind "absent": no such file; "ok": a manifest with
\* the given name and version; "corrupt": a file that exists but has no
\* parseable content (invalid JSON, or no version line for the Python
\* files); "readonly": a manifest that can be read but not written
NoFile == [kind |-> "absent", name |-> "", version |-> MissingVersion]
Manifest(kind, name, version) ==
  [kind |-> kind, name |-> name, version |-> version]

Exists(d, f) == d[f].kind # "absent"

RECURSIVE GlobMatch(_, _)
\* fast-glob on one path: * matches any run of characters other than /
GlobMatch(p, s) ==
  IF p = <<>> THEN s = <<>>
  ELSE IF Head(p) = "*"
       THEN \/ GlobMatch(Tail(p), s)
            \/ s # <<>> /\ Head(s) # "/" /\ GlobMatch(p, Tail(s))
       ELSE s # <<>> /\ Head(s) = Head(p) /\ GlobMatch(Tail(p), Tail(s))

\* fg(patterns, {onlyFiles: true}): the existing files a pattern matches
FastGlob(d, patterns) ==
  {f \in Files : Exists(d, f) /\ \E q \in patterns :
                   q.name = f.name /\ GlobMatch(q.dir, f.dir)}

VerA == SemVer(1, 2, 3, <<>>)
VerAB == SemVer(2, 0, 0, <<StrId(<<"b","e","t","a">>), NumId(1)>>)
VerBad == NotSemVer("not-a-version")

ConfigVersions == {SemVer(1, 0, 0, <<>>), SemVer(1, 0, 0, <<StrId(<<"r","c">>)>>), VerBad}

WorkspaceLists == {<<DirA>>, <<DirA, DirAB>>, <<DirAB, DirA>>, <<Star>>}

Configs ==
  [versioningStrategy : {"fixed"}, environment : {"nodejs", "python"},
   version : ConfigVersions, workspaces : WorkspaceLists]
  \cup
  [versioningStrategy : {"independent"}, environment : {"nodejs", "python"},
   version : {SemVer(1, 0, 0, <<>>)}, workspaces : WorkspaceLists]

\* package.json of a and of ab
NodeA ==
  {Manifest(k, "pkg-a", VerA) : k \in {"ok", "corrupt", "readonly"}} \cup {NoFile}
NodeAB ==
  {Manifest("ok", "", VerAB), Manifest("ok", "pkg-ab", VerBad), NoFile}

\* the Python files of a and of ab
PyA == {{"pyproject.toml"}, {}}
PyAB == {{"setup.py", "__init__.py"}, {}}

NodeDisks ==
  {[f \in Files |->
      IF f = Join(DirA, "package.json") THEN a
      ELSE IF f = Join(DirAB, "package.json") THEN b
      ELSE NoFile] : a \in NodeA, b \in NodeAB}

PythonDisks ==
  {[f \in Files |->
      IF f.dir = DirA /\ f.name \in a THEN Manifest("ok", "", VerA)
      ELSE IF f.dir = DirAB /\ f.name = "setup.py" /\ f.name \in b
           THEN Manifest("readonly", "", VerAB)
      ELSE IF f.dir = DirAB /\ f.name \in b THEN Manifest("corrupt", "", VerAB)
      ELSE IF f = Join(DirA, "package.json") THEN Manifest("ok", "pkg-a", VerA)
      ELSE NoFile] : a \in PyA, b \in PyAB}

\* tags that may exist before the run
TagPool == {"v1.1.0", "pkg-a@1.2.4"}
InitialTagSets == {t \in SUBSET TagPool : Cardinality(t) <= MaxTags}

\* commits of the repository and the files of each (git show --name-only)
K1 == Commit("h1", <<"f","e","a","t",":"," ","x">>, "ann", "ann@x.io")
K2 == Commit("h2", <<"f","i","x",":"," ","y">>, "", "bob@x.io")
K3 == Commit("h3", <<"r","e","v","e","r","t",":"," ","z">>, "cy", "cy@x.io")
K4 == Commit("h4", <<"d","o","c","s","(","a",")",":"," ","w">>, "dee", "")

CommitFiles(hash) ==
  CASE hash = "h1" -> << <<"a","b","/","x">> >>
    [] hash = "h2" -> << <<"a","/","x">>, <<"r">> >>
    [] hash = "h3" -> << <<"r">> >>
    [] OTHER -> << <<"a","b","/","y">> >>

\* histories HEAD may point at, newest commit first
Histories == {<<K1, K2, K4, K3>>, <<K3, K2, K1, K4>>}

\* the logs git log may answer with: the newest commits of a history
Logs == {SubSeq(h, 1, n) : h \in Histories, n \in 0..MaxCommits}

(***************************************************************************)
(* State                                                                   *)
(***************************************************************************)
VARIABLES
  config,      \* the Config handed to the constructor
  disk,        \* content of every manifest file
  disk0,       \* content of every manifest file when execute was invoked
  localTags,   \* tags of the local repository
  remoteTags,  \* tags of the remote
  releases,    \* releases published on GitHub
  pc,          \* position of execute
  opts,        \* the ReleaseOptions of the invocation
  calls,       \* collaborator calls made by the invocation, in order
  writes,      \* manifest files written since the invocation began, in order
  tasks,       \* state of each per-file task of the bump fan-out
  bumpResult,  \* the FunctionResult error the bump method returned
  run,         \* local variables of the strategy method
  releaseArgs, \* arguments of the createRelease call
  strat,       \* FunctionResult returned by the strategy method
  result,      \* FunctionResult returned by execute
  cli,         \* the orbit-it release process: flags, position, exit
  app          \* a function of the service applied to an argument

vars ==
  <<config, disk, disk0, localTags, remoteTags, releases, pc, opts, calls,
    writes, tasks, bumpResult, run, releaseArgs, strat, result, cli, app>>

env == <<config, disk, disk0, localTags, remoteTags, releases>>

NoData == [present |-> FALSE, version |-> "", tagName |-> "", releaseNotes |-> ""]
Data(v, t, n) ==
  [present |-> TRUE, version |-> VersionString(v), tagName |-> t,
   releaseNotes |-> n]

NoResult == [error |-> NoError, data |-> NoData]

NoPackage == [name |-> "", version |-> MissingVersion, workspace |-> <<>>]

NoRun ==
  [repoInfo |-> [owner |-> "", repo |-> ""], latestTag |-> Undefined,
   commits |-> <<>>, pkg |-> NoPackage, currentVersion |-> MissingVersion,
   newVersion |-> MissingVersion, tagName |-> "", releaseNotes |-> "",
   isPrerelease |-> FALSE,
   \* what the collaborators answered, kept for the properties
   authenticated |-> "unasked", tagsListed |-> FALSE, allTags |-> {},
   logged |-> "unasked", filesListed |-> FALSE, computed |-> FALSE]

NoReleaseArgs ==
  [called |-> FALSE, body |-> "", releaseName |-> "", owner |-> "",
   repo |-> "", tagName |-> "", prerelease |-> FALSE, draft |-> FALSE]

\* a client whose tag push goes through pushChanges
CallPushingBranch(op, arg) ==
  [op |-> IF op = "pushTags" THEN "pushChanges" ELSE op, arg |-> arg]

\* a method of the git client or of the GitHub client is invoked
Call(op, arg) == [op |-> op, arg |-> arg]

\* ReleaseOptions: release.draft may be left out
Options ==
  [type : ReleaseTypes, draft : {"true", "false", Undefined}, dryRun : BOOLEAN]

\* const { type, draft = false } = release
DraftOrDefault(draft) == IF draft = Undefined THEN FALSE ELSE draft = "true"

\* no release process: the service is driven directly
CliOff ==
  [pc |-> "off", flags |-> [dryRun |-> FALSE, ci |-> FALSE, type |-> Undefined,
                            draft |-> FALSE],
   options |-> [dryRun |-> FALSE, type |-> Undefined, draft |-> FALSE],
   failure |-> "none", executed |-> FALSE, exited |-> FALSE, code |-> 0]

\* no function application
NoApp == [fn |-> "none"]

\* a constructed ReleaseService on which execute has not been invoked
ServiceIdle ==
  /\ disk0 = disk
  /\ remoteTags = localTags
  /\ releases = <<>>
  /\ pc = "idle"
  /\ opts = [type |-> "patch", draft |-> Undefined, dryRun |-> FALSE]
  /\ calls = <<>>
  /\ writes = <<>>
  /\ tasks = [f \in Files |-> "none"]
  /\ bumpResult = NoError
  /\ run = NoRun
  /\ releaseArgs = NoReleaseArgs
  /\ strat = NoResult
  /\ result = NoResult

Init ==
  /\ config \in Configs
  /\ disk \in (IF config.environment = "nodejs" THEN NodeDisks ELSE PythonDisks)
  /\ localTags \in InitialTagSets
  /\ ServiceIdle
  /\ cli = CliOff
  /\ app = NoApp

(***************************************************************************)
(* execute                                                                 *)
(***************************************************************************)
ReleaseHint == "Failed to create release."

\* a throw caught by the catch block of execute
ExecuteThrows(found) ==
  /\ result' = [error |-> CatchError(found, ReleaseHint), data |-> NoData]
  /\ pc' = "done"

\* a throw caught by the catch block of a strategy method
StrategyThrows(found) ==
  /\ strat' = [error |-> CatchError(found, ReleaseHint), data |-> NoData]
  /\ pc' = "return"

\* execute is invoked with some options
StartRun ==
  /\ pc = "idle"
  /\ \E o \in Options : opts' = o
  /\ pc' = "auth"
  /\ UNCHANGED <<cli, app, env, calls, writes, tasks, bumpResult, run, releaseArgs,
                 strat, result>>

\* an execute that does not look at the answer of the credential check
AuthCheckSkipped(isAuthenticated) == NoError

\* if (!isAuthenticated) throw ...
AuthCheck(isAuthenticated) ==
  IF ~isAuthenticated
  THEN OrbitItError("GitHub token is not valid", "Please check your GitHub token.")
  ELSE NoError

\* await this.githubClient.checkUserIsAuthenticated(): the check answers
\* true or false, or throws
Authenticate ==
  /\ pc = "auth"
  /\ calls' = Append(calls, Call("checkUserIsAuthenticated", ""))
  /\ \E answer \in {"true", "false", "throws"} :
       /\ run' = [run EXCEPT !.authenticated = answer]
       /\ IF answer = "throws"
          THEN ExecuteThrows(PlainError("Bad credentials"))
          ELSE IF AuthCheck(answer = "true").kind # "none"
          THEN ExecuteThrows(AuthCheck(answer = "true"))
          ELSE pc' = "repoInfo" /\ UNCHANGED result
  /\ UNCHANGED <<cli, app, env, opts, writes, tasks, bumpResult, releaseArgs, strat>>

\* the remotes git may report: none, a URL the pattern rejects, a GitHub URL
Remotes == {"none", "other-host", "github", "not-a-repo"}

\* GitClient.getRepoInfo
GitGetRepoInfo(remote) ==
  CASE remote = "none" ->
         [thrown |-> OrbitItError("No remotes found",
                                  "Please add a remote to your git repository."),
          owner |-> "", repo |-> ""]
    [] remote = "other-host" ->
         [thrown |-> OrbitItError("Invalid remote URL format",
                       "The remote URL does not match the expected GitHub format."),
          owner |-> "", repo |-> ""]
    [] remote = "not-a-repo" ->
         [thrown |-> PlainError("fatal: not a git repository"),
          owner |-> "", repo |-> ""]
    [] OTHER -> [thrown |-> NoError, owner |-> "owner", repo |-> "repo"]

\* const repoInfo = await this.gitClient.getRepoInfo()
GetRepoInfo ==
  /\ pc = "repoInfo"
  /\ calls' = Append(calls, Call("getRepoInfo", ""))
  /\ \E remote \in Remotes :
       LET r == GitGetRepoInfo(remote) IN
       IF r.thrown.kind # "none"
       THEN ExecuteThrows(r.thrown) /\ UNCHANGED run
       ELSE /\ run' = [run EXCEPT !.repoInfo = [owner |-> r.owner, repo |-> r.repo]]
            /\ pc' = "getTags"
            /\ UNCHANGED result
  /\ UNCHANGED <<cli, app, env, opts, writes, tasks, bumpResult, releaseArgs, strat>>

(***************************************************************************)
(* The steps the two strategy methods share                                *)
(***************************************************************************)
\* the latest simple-git may report: one of the tags (every tag of the
\* model holds a dot), undefined when there is none
SimpleGitLatest(tags) == IF tags = {} THEN {Undefined} ELSE tags

\* a getTags that treats an empty tag list as an error
GitGetTagsRejectingEmpty(tags, latest) ==
  IF tags = {}
  THEN [thrown |-> OrbitItError("No tags found",
                                "Please create a tag before releasing."),
        all |-> tags, latest |-> ""]
  ELSE [thrown |-> NoError, all |-> tags, latest |-> latest]

\* GitClient.getTags: whatever simple-git returns; with no tag, latest is
\* undefined and nothing is thrown
GitGetTags(tags, latest) ==
  [thrown |-> NoError, all |-> tags, latest |-> latest]

\* const tags = await this.gitClient.getTags();
\* const latestTag = tags.latest || undefined
GetTags ==
  /\ pc = "getTags"
  /\ calls' = Append(calls, Call("getTags", ""))
  /\ \/ \E latest \in SimpleGitLatest(localTags) :
          LET r == GitGetTags(localTags, latest) IN
          IF r.thrown.kind # "none"
          THEN /\ StrategyThrows(r.thrown)
               /\ run' = [run EXCEPT !.tagsListed = TRUE, !.allTags = r.all]
          ELSE /\ run' = [run EXCEPT
                            !.latestTag = IF r.latest \in {"", Undefined}
                                          THEN Undefined ELSE r.latest,
                            !.tagsListed = TRUE, !.allTags = r.all]
               /\ pc' = "getCommits"
               /\ UNCHANGED strat
     \/ StrategyThrows(PlainError("git tag failed")) /\ UNCHANGED run
  /\ UNCHANGED <<cli, app, env, opts, writes, tasks, bumpResult, releaseArgs, result>>

\* GitClient.getCommits on the log git answers with
GitGetCommits(log) ==
  IF Len(log) = 0
  THEN [thrown |-> OrbitItError("No commits found",
                                "Please make some commits to the repository."),
        commits |-> <<>>]
  ELSE [thrown |-> NoError, commits |-> log]

\* if (commits.length === 0) throw ...
CheckCommits(commits) ==
  IF Len(commits) = 0
  THEN OrbitItError("No commits found",
                    "Please make some changes before releasing.")
  ELSE NoError

\* const commits = await this.gitClient.getCommits({ from: latestTag })
GetCommits ==
  /\ pc = "getCommits"
  /\ calls' = Append(calls, Call("getCommits", run.latestTag))
  /\ \/ \E log \in Logs :
          LET r == GitGetCommits(log)
              seen == IF Len(log) = 0 THEN "empty" ELSE "some" IN
          IF r.thrown.kind # "none"
          THEN StrategyThrows(r.thrown) /\ run' = [run EXCEPT !.logged = seen]
          ELSE IF CheckCommits(r.commits).kind # "none"
          THEN /\ StrategyThrows(CheckCommits(r.commits))
               /\ run' = [run EXCEPT !.logged = seen]
          ELSE /\ run' = [run EXCEPT !.commits = r.commits, !.logged = seen]
               /\ pc' = IF config.versioningStrategy = "fixed"
                        THEN "fixedVersion" ELSE "changedPackages"
               /\ UNCHANGED strat
     \/ /\ StrategyThrows(PlainError("git log failed"))
        /\ run' = [run EXCEPT !.logged = "failed"]
  /\ UNCHANGED <<cli, app, env, opts, writes, tasks, bumpResult, releaseArgs, result>>

\* a strategy method that forgets the dry-run return
AfterComputeIgnoringDryRun(dryRun) == "bump"

\* where a strategy method goes after computing the release: the dry-run
\* return, or the bump
AfterCompute(dryRun) == IF dryRun THEN "return" ELSE "bump"

\* the assignments both methods make once version and tag name are known
Computed(current, new, tagName, pkg) ==
  LET notes == GenerateReleaseNotes(tagName, run.commits) IN
  /\ run' = [run EXCEPT !.currentVersion = current, !.newVersion = new,
                        !.tagName = tagName, !.releaseNotes = notes,
                        !.pkg = pkg, !.isPrerelease = HasPrerelease(new),
                        !.filesListed = config.versioningStrategy = "independent",
                        !.computed = TRUE]
  /\ pc' = AfterCompute(opts.dryRun)
  /\ strat' = IF AfterCompute(opts.dryRun) = "return"
              THEN [error |-> NoError, data |-> Data(new, tagName, notes)]
              ELSE strat

(***************************************************************************)
(* versionStrategyFixedRelease                                             *)
(***************************************************************************)
\* a tag name without the v prefix
FixedTagNameBare(newVersion) == VersionString(newVersion)

\* const tagName = `v${newVersion}`
FixedTagName(newVersion) == "v" \o VersionString(newVersion)

\* a fixed strategy that continues from the version of the latest tag
FixedVersionFromTag ==
  /\ pc = "fixedVersion"
  /\ LET current == IF run.latestTag = "v1.1.0" THEN SemVer(1, 1, 0, <<>>)
                     ELSE config.version
         new == SemverInc(current, opts.type) IN
     Computed(current, new, FixedTagName(new), NoPackage)
  /\ UNCHANGED <<cli, app, env, opts, calls, writes, tasks, bumpResult, releaseArgs,
                 result>>

\* const newVersion = semver.inc(currentVersion, type) ... if (dryRun)
FixedVersion ==
  /\ pc = "fixedVersion"
  /\ LET new == SemverInc(config.version, opts.type) IN
     Computed(config.version, new, FixedTagName(new), NoPackage)
  /\ UNCHANGED <<cli, app, env, opts, calls, writes, tasks, bumpResult, releaseArgs,
                 result>>

(***************************************************************************)
(* versionStrategyIndependentRelease                                       *)
(***************************************************************************)
RECURSIVE Concat(_)
Concat(ss) == IF ss = <<>> THEN <<>> ELSE Head(ss) \o Concat(Tail(ss))

\* the changedFiles set built from the answers of getCommitFiles
ChangedFiles(commits) ==
  LET all == Concat([i \in 1..Len(commits) |-> CommitFiles(commits[i].hash)])
  IN {all[i] : i \in 1..Len(all)}

\* Array.from(changedFiles).some(file => file.startsWith(workspace))
HasChangesInWorkspace(changedFiles, workspace) ==
  \E file \in changedFiles : StartsWith(file, workspace)

\* the entry getChangedPackages builds for a workspace with changes
PackageOf(d, workspace) ==
  LET m == d[Join(workspace, "package.json")] IN
  IF Join(workspace, "package.json") \in Files /\ m.kind \in {"ok", "readonly"}
  THEN [name |-> IF m.name # "" THEN m.name ELSE Str(workspace),
        version |-> IF Truthy(m.version) THEN m.version ELSE SemVer(0, 0, 0, <<>>),
        workspace |-> workspace]
  ELSE [name |-> Str(Basename(workspace)), version |-> SemVer(0, 0, 0, <<>>),
        workspace |-> workspace]

\* a getChangedPackages without the filter on changed files
GetChangedPackagesUnfiltered(d, workspaces, commits) ==
  [i \in 1..Len(workspaces) |-> PackageOf(d, workspaces[i])]

\* getChangedPackages: the workspaces with changes, in configured order
GetChangedPackages(d, workspaces, commits) ==
  LET changed == SelectSeq(workspaces,
                   LAMBDA w : HasChangesInWorkspace(ChangedFiles(commits), w))
  IN [i \in 1..Len(changed) |-> PackageOf(d, changed[i])]

\* a selection that takes the last changed package
PackageToReleaseLast(changedPackages) == changedPackages[Len(changedPackages)]

\* const packageToRelease = changedPackages[0]
PackageToRelease(changedPackages) == changedPackages[1]

IndependentTagName(name, newVersion) ==
  name \o "@" \o VersionString(newVersion)

\* const changedPackages = await this.getChangedPackages(commits) ... if (dryRun)
ChangedPackages ==
  /\ pc = "changedPackages"
  /\ calls' = calls \o [i \in 1..Len(run.commits) |->
                          Call("getCommitFiles", run.commits[i].hash)]
  /\ \/ LET changedPackages ==
              GetChangedPackages(disk, config.workspaces, run.commits)
        IN IF Len(changedPackages) = 0
           THEN /\ StrategyThrows(OrbitItError("No packages have changes",
                     "Please make changes to packages before releasing."))
                /\ run' = [run EXCEPT !.filesListed = TRUE]
           ELSE LET pkg == PackageToRelease(changedPackages)
                    new == SemverInc(pkg.version, opts.type)
                IN Computed(pkg.version, new,
                            IndependentTagName(pkg.name, new), pkg)
     \/ StrategyThrows(PlainError("git show failed")) /\ UNCHANGED run
  /\ UNCHANGED <<cli, app, env, opts, writes, tasks, bumpResult, releaseArgs, result>>

(***************************************************************************)
(* The manifest bump: nodeJsBumpPackages and pythonBumpPackages            *)
(***************************************************************************)
PythonFilesOf(workspace) ==
  {Join(workspace, PythonFileNames[i]) : i \in 1..Len(PythonFileNames)}

\* the glob patterns a strategy method hands to the bump method
BumpPatterns ==
  IF config.versioningStrategy = "fixed"
  THEN IF config.environment = "nodejs"
       THEN {Join(config.workspaces[i], "package.json") :
               i \in 1..Len(config.workspaces)}
       ELSE UNION {PythonFilesOf(config.workspaces[i]) :
                     i \in 1..Len(config.workspaces)}
  ELSE IF config.environment = "nodejs"
       THEN {Join(run.pkg.workspace, "package.json")}
       ELSE PythonFilesOf(run.pkg.workspace)

BumpHint ==
  IF config.environment = "nodejs" THEN "Failed to bump version."
  ELSE "Failed to bump Python version."

\* what the strategy method does with the FunctionResult of the bump
\* method: the result is not looked at
AfterBump(bumpError) == "createTag"

\* the bump method resolves the patterns and starts one task per file
BumpStart ==
  /\ pc = "bump"
  /\ LET existing == FastGlob(disk, BumpPatterns) IN
     IF config.environment = "python" /\ existing = {}
     THEN /\ bumpResult' = OrbitItError("No Python version files found.",
                             "Please check your workspace configuration.")
          /\ pc' = AfterBump(bumpResult')
          /\ UNCHANGED tasks
     ELSE /\ tasks' = [f \in Files |-> IF f \in existing THEN "reading" ELSE tasks[f]]
          /\ pc' = "bumping"
          /\ UNCHANGED bumpResult
  /\ UNCHANGED <<cli, app, env, opts, calls, writes, run, releaseArgs, strat, result>>

\* a task reads its file: readJsonFile, or fs.readFile of a Python file
TaskRead(f) ==
  /\ tasks[f] = "reading"
  /\ tasks' = [tasks EXCEPT ![f] =
                 IF f.name = "package.json" /\ disk[f].kind = "corrupt"
                 THEN "failed" ELSE "writing"]
  /\ UNCHANGED <<cli, app, env, pc, opts, calls, writes, bumpResult, run, releaseArgs,
                 strat, result>>

\* a task that writes back what it read
BumpedKeepingVersion(content, newVersion) == content

\* the content a task writes back
Bumped(content, newVersion) ==
  IF content.kind = "corrupt" THEN content
  ELSE [content EXCEPT !.version = newVersion]

\* a task writes its file: writeJsonFile, or fs.writeFile of a Python file
TaskWrite(f) ==
  /\ tasks[f] = "writing"
  /\ IF disk[f].kind = "readonly"
     THEN /\ tasks' = [tasks EXCEPT ![f] = "failed"]
          /\ UNCHANGED <<disk, writes>>
     ELSE /\ tasks' = [tasks EXCEPT ![f] = "done"]
          /\ disk' = [disk EXCEPT ![f] = Bumped(@, run.newVersion)]
          /\ writes' = Append(writes, f)
  /\ UNCHANGED <<cli, app, config, disk0, localTags, remoteTags, releases, pc, opts,
                 calls, bumpResult, run, releaseArgs, strat, result>>

InFlight(f) == tasks[f] \in {"reading", "writing"}

\* a Promise.all that waits for every task and overlooks rejections
PromiseAllOverlookingRejections(t) ==
  IF \A f \in Files : t[f] \notin {"reading", "writing"} THEN "fulfilled"
  ELSE "pending"

\* await Promise.all(existingFiles.map(...)): rejected as soon as one task
\* has failed, fulfilled when every task is done
PromiseAll(t) ==
  IF \E f \in Files : t[f] = "failed" THEN "rejected"
  ELSE IF \A f \in Files : t[f] \notin {"reading", "writing"} THEN "fulfilled"
  ELSE "pending"

\* Promise.all settles and the bump method returns its FunctionResult
BumpSettle ==
  /\ pc = "bumping"
  /\ PromiseAll(tasks) # "pending"
  /\ bumpResult' = IF PromiseAll(tasks) = "rejected"
                   THEN CatchError(PlainError("EACCES or SyntaxError"), BumpHint)
                   ELSE NoError
  /\ pc' = AfterBump(bumpResult')
  /\ UNCHANGED <<cli, app, env, opts, calls, writes, tasks, run, releaseArgs, strat,
                 result>>

(***************************************************************************)
(* Tag, release, push                                                      *)
(***************************************************************************)
\* a catch block that deletes the tag of the run
TagsAfterThrowRolledBack(tags, tagName) == tags \ {tagName}

\* the local tags after the catch block of a strategy method has run: the
\* block builds the error and touches nothing else
TagsAfterThrow(tags, tagName) == tags

\* await this.gitClient.createTag({ tagName, tagMessage })
CreateTag ==
  /\ pc = "createTag"
  /\ calls' = Append(calls, Call("createTag", run.tagName))
  /\ \/ /\ run.tagName \notin localTags
        /\ localTags' = localTags \cup {run.tagName}
        /\ pc' = "createRelease"
        /\ UNCHANGED strat
     \/ /\ StrategyThrows(PlainError("git tag failed"))
        /\ UNCHANGED localTags
  /\ UNCHANGED <<cli, app, config, disk, disk0, remoteTags, releases, opts, writes,
                 tasks, bumpResult, run, releaseArgs, result>>

\* await this.githubClient.createRelease({...})
CreateRelease ==
  /\ pc = "createRelease"
  /\ calls' = Append(calls, Call("createRelease", run.tagName))
  /\ releaseArgs' =
       [called |-> TRUE, body |-> run.releaseNotes, releaseName |-> run.tagName,
        owner |-> run.repoInfo.owner, repo |-> run.repoInfo.repo,
        tagName |-> run.tagName, prerelease |-> run.isPrerelease,
        draft |-> DraftOrDefault(opts.draft)]
  /\ \/ /\ releases' = Append(releases, releaseArgs')
        /\ pc' = "pushTags"
        /\ UNCHANGED <<strat, localTags>>
     \/ /\ StrategyThrows(PlainError("Validation Failed"))
        /\ localTags' = TagsAfterThrow(localTags, run.tagName)
        /\ UNCHANGED releases
  /\ UNCHANGED <<cli, app, config, disk, disk0, remoteTags, opts, writes,
                 tasks, bumpResult, run, result>>

\* await this.gitClient.pushTags(); data = {...}
PushTags ==
  /\ pc = "pushTags"
  /\ calls' = Append(calls, Call("pushTags", ""))
  /\ \/ /\ remoteTags' = remoteTags \cup localTags
        /\ strat' = [error |-> NoError,
                     data |-> Data(run.newVersion, run.tagName, run.releaseNotes)]
        /\ pc' = "return"
        /\ UNCHANGED localTags
     \/ /\ StrategyThrows(PlainError("git push failed"))
        /\ localTags' = TagsAfterThrow(localTags, run.tagName)
        /\ UNCHANGED remoteTags
  /\ UNCHANGED <<cli, app, config, disk, disk0, releases, opts, writes,
                 tasks, bumpResult, run, releaseArgs, result>>

\* execute receives the strategy's FunctionResult:
\* if (releaseResult.error || !releaseResult.data) throw releaseResult.error
ExecuteReturn ==
  /\ pc = "return"
  /\ IF strat.error.kind # "none" \/ ~strat.data.present
     THEN ExecuteThrows(strat.error)
     ELSE result' = [error |-> NoError, data |-> strat.data] /\ pc' = "done"
  /\ UNCHANGED <<cli, app, env, opts, calls, writes, tasks, bumpResult, run, releaseArgs,
                 strat>>

Next ==
  \/ StartRun
  \/ Authenticate
  \/ GetRepoInfo
  \/ GetTags
  \/ GetCommits
  \/ FixedVersion
  \/ ChangedPackages
  \/ BumpStart
  \/ \E f \in Files : TaskRead(f)
  \/ \E f \in Files : TaskWrite(f)
  \/ BumpSettle
  \/ CreateTag
  \/ CreateRelease
  \/ PushTags
  \/ ExecuteReturn

Spec == Init /\ [][Next]_vars

(***************************************************************************)
(* The release command of the orbit-it CLI (release-command.ts): the       *)
(* process parses its flags, loads the configuration, takes the release    *)
(* options from the flags (--ci) or from the prompts, and hands them to    *)
(* ReleaseService.execute.                                                 *)
(***************************************************************************)
service ==
  <<env, pc, opts, calls, writes, tasks, bumpResult, run, releaseArgs, strat,
    result>>

\* the flags commander hands to the action: --dry-run, --ci and --draft
\* default to false, --type has no default
Flags ==
  [dryRun : BOOLEAN, ci : BOOLEAN, type : ReleaseTypes \cup {Undefined},
   draft : BOOLEAN]

\* the repositories the command is run in
CliConfigs ==
  {[versioningStrategy |-> "fixed", environment |-> "nodejs",
    version |-> SemVer(1, 0, 0, <<>>), workspaces |-> <<DirA>>],
   [versioningStrategy |-> "independent", environment |-> "nodejs",
    version |-> SemVer(1, 0, 0, <<>>), workspaces |-> <<DirA, DirAB>>]}

CliDisk ==
  [f \in Files |->
     IF f = Join(DirA, "package.json") THEN Manifest("ok", "pkg-a", VerA)
     ELSE IF f = Join(DirAB, "package.json") THEN Manifest("ok", "", VerAB)
     ELSE NoFile]

CliInit ==
  /\ config \in CliConfigs
  /\ disk = CliDisk
  /\ localTags = {}
  /\ ServiceIdle
  /\ \E f \in Flags : cli = [CliOff EXCEPT !.pc = "config", !.flags = f]
  /\ app = NoApp

\* onCommandFlowCancel: cancel(message); process.exit(0)
OnCommandFlowCancel(c, why) ==
  [c EXCEPT !.pc = "exited", !.failure = why, !.exited = TRUE, !.code = 0]

\* const foundConfig = await orbitIt.config.get()
ConfigGet ==
  /\ cli.pc = "config"
  /\ \/ cli' = [cli EXCEPT !.pc = "mode"]
     \/ cli' = OnCommandFlowCancel(cli, "config")
  /\ UNCHANGED <<service, app>>

\* if (ci) { if (!type) ... releaseHandler(options) } else { ... group(...) }
Mode ==
  /\ cli.pc = "mode"
  /\ cli' = IF cli.flags.ci
            THEN IF cli.flags.type = Undefined
                 THEN OnCommandFlowCancel(cli, "missing-type")
                 ELSE [cli EXCEPT !.pc = "env",
                         !.options = [dryRun |-> cli.flags.dryRun,
                                      type |-> cli.flags.type,
                                      draft |-> cli.flags.draft]]
            ELSE [cli EXCEPT !.pc = "prompt"]
  /\ UNCHANGED <<service, app>>

\* the prompts of the interactive mode: continue, type, dryRun and draft
\* are answered, or the user cancels; releaseHandler(userConfig)
Prompt ==
  /\ cli.pc = "prompt"
  /\ \/ cli' = OnCommandFlowCancel(cli, "cancelled")
     \/ \E continue \in BOOLEAN, type \in ReleaseTypes, dryRun \in BOOLEAN,
           draft \in BOOLEAN :
          cli' = IF ~continue
                 THEN [cli EXCEPT !.pc = "exited", !.failure = "declined",
                                  !.exited = TRUE, !.code = 0]
                 ELSE [cli EXCEPT !.pc = "env",
                         !.options = [dryRun |-> dryRun, type |-> type,
                                      draft |-> draft]]
  /\ UNCHANGED <<service, app>>

\* const foundEnv = await orbitIt.env.loadEnvironmentVariables()
LoadEnv ==
  /\ cli.pc = "env"
  /\ \/ cli' = [cli EXCEPT !.pc = "execute"]
     \/ cli' = OnCommandFlowCancel(cli, "env")
  /\ UNCHANGED <<service, app>>

\* createReleaseService(token), then
\* releaseService.execute({ release: { type, draft }, dryRun })
CliExecute ==
  /\ cli.pc = "execute"
  /\ pc = "idle"
  /\ opts' = [type |-> cli.options.type,
              draft |-> IF cli.options.draft THEN "true" ELSE "false",
              dryRun |-> cli.options.dryRun]
  /\ pc' = "auth"
  /\ cli' = [cli EXCEPT !.pc = "awaiting", !.executed = TRUE]
  /\ UNCHANGED <<env, calls, writes, tasks, bumpResult, run, releaseArgs,
                 strat, result, app>>

\* if (releaseResult.error || !releaseResult.data) onCommandFlowCancel(...)
\* return { releaseNotes, tagName, version }
HandlerReturn ==
  /\ cli.pc = "awaiting"
  /\ pc = "done"
  /\ cli' = IF result.error.kind # "none" \/ ~result.data.present
            THEN OnCommandFlowCancel(cli, "release")
            ELSE [cli EXCEPT !.pc = "report"]
  /\ UNCHANGED <<service, app>>

\* note(releaseNotes ...); note(tagName ...); note(version ...)
Report ==
  /\ cli.pc = "report"
  /\ cli' = [cli EXCEPT !.pc = "reported"]
  /\ UNCHANGED <<service, app>>

\* the action has returned and no I/O is pending: the process ends with
\* the default exit code
ProcessEnd ==
  /\ cli.pc = "reported"
  /\ \A f \in Files : ~InFlight(f)
  /\ cli' = [cli EXCEPT !.pc = "exited", !.exited = TRUE, !.code = 0]
  /\ UNCHANGED <<service, app>>

\* the steps of execute, taken while the process is alive
ServiceStep ==
  /\ ~cli.exited
  /\ \/ Authenticate
     \/ GetRepoInfo
     \/ GetTags
     \/ GetCommits
     \/ FixedVersion
     \/ ChangedPackages
     \/ BumpStart
     \/ \E f \in Files : TaskRead(f)
     \/ \E f \in Files : TaskWrite(f)
     \/ BumpSettle
     \/ CreateTag
     \/ CreateRelease
     \/ PushTags
     \/ ExecuteReturn

CliNext ==
  \/ ConfigGet
  \/ Mode
  \/ Prompt
  \/ LoadEnv
  \/ CliExecute
  \/ HandlerReturn
  \/ Report
  \/ ProcessEnd
  \/ ServiceStep

CliSpec == CliInit /\ [][CliNext]_vars

(***************************************************************************)
(* The pure functions of the service, applied to arguments of their own:   *)
(* the service and the command stay as constructed.                        *)
(***************************************************************************)
Untouched ==
  /\ config = [versioningStrategy |-> "fixed", environment |-> "nodejs",
               version |-> SemVer(1, 0, 0, <<>>), workspaces |-> <<DirA>>]
  /\ disk = CliDisk
  /\ localTags = {}
  /\ ServiceIdle
  /\ cli = CliOff

\* commit messages, built from what may stand before the type word, a
\* word, what may stand between the word and the colon, the separator and
\* the rest of the subject
Prefixes == {<<>>, <<" ">>}
Words ==
  {RegexTypes[i] : i \in 1..Len(RegexTypes)} \cup
  {<<"r","e","v","e","r","t">>, <<"F","e","a","t">>, <<"F","I","X">>,
   <<"f","e","a","t","u","r","e">>, <<"t","e","s","t","s">>}
Scopes ==
  {<<>>, <<"(","a",")">>, <<"(",")">>, <<"(","a">>, <<"a",")">>,
   <<"(","a",")",")">>, <<"(","a",")","(","b",")">>}
Separators == {<<":">>, <<>>, <<" ",":">>}
Rests == {<<>>, <<" ","x">>}

MessageParts ==
  [prefix : Prefixes, word : Words, scope : Scopes, sep : Separators,
   rest : Rests]

MessageOf(p) == p.prefix \o p.word \o p.scope \o p.sep \o p.rest

ClassifyInit ==
  /\ Untouched
  /\ \E p \in MessageParts :
       app = [fn |-> "classify", arg |-> MessageOf(p), parts |-> p,
              out |-> "", applied |-> FALSE]

\* groupCommitsByType classifies one commit message
Classify ==
  /\ app.fn = "classify" /\ ~app.applied
  /\ app' = [app EXCEPT !.out = ClassifyMessage(app.arg), !.applied = TRUE]
  /\ UNCHANGED <<service, cli>>

ClassifySpec == ClassifyInit /\ [][Classify]_vars

\* the commits handed to groupCommitsByType and generateReleaseNotes:
\* lists without repetition of commits of the repository
K5 == Commit("h5", <<"f","e","a","t","(","b",")",":"," ","v">>, "", "eve@x.io")
NotePool == {K1, K2, K3, K4, K5}

CommitLists ==
  UNION {{cs \in [1..n -> NotePool] :
            \A i, j \in 1..n : i # j => cs[i] # cs[j]} : n \in 0..MaxGroup}

NotesInit ==
  /\ Untouched
  /\ \E cs \in CommitLists :
       app = [fn |-> "notes", arg |-> cs, grouped |-> EmptyGroups,
              lines |-> <<>>, text |-> "", groupedDone |-> FALSE,
              linesDone |-> FALSE]

\* groupCommitsByType(commits)
Group ==
  /\ app.fn = "notes" /\ ~app.groupedDone
  /\ app' = [app EXCEPT !.grouped = GroupCommitsByType(app.arg),
                        !.groupedDone = TRUE]
  /\ UNCHANGED <<service, cli>>

\* generateReleaseNotes({ tagName, commits })
Generate ==
  /\ app.fn = "notes" /\ ~app.linesDone
  /\ app' = [app EXCEPT !.lines = NoteLines(app.arg),
                        !.text = GenerateReleaseNotes("v1.0.0", app.arg),
                        !.linesDone = TRUE]
  /\ UNCHANGED <<service, cli>>

NotesNext == Group \/ Generate

NotesSpec == NotesInit /\ [][NotesNext]_vars

\* the version strings handed to semver.inc: printed versions with small,
\* one-digit and two-digit numbers and with several prerelease segments,
\* the same with the v prefix, and strings that are no version
VersionNumbers == (0..MaxPart) \cup {9, 99}
PrereleasePool ==
  {<<>>, <<StrId(<<"r","c">>)>>, <<StrId(<<"b","e","t","a">>), NumId(1)>>,
   <<NumId(0)>>}
VersionPool ==
  {SemVer(ma, mi, pa, pre) :
     ma \in VersionNumbers, mi \in VersionNumbers, pa \in VersionNumbers,
     pre \in PrereleasePool}
NoVersionStrings ==
  {<<"1",".","2">>, <<"0","1",".","2",".","3">>, <<"1",".","2",".","3","-">>,
   <<"1",".","2",".","3","-","0","1">>, <<"x">>, <<>>}

VersionInputs ==
  {[arg |-> Format(v), parts |-> v] : v \in VersionPool}
  \cup {[arg |-> <<"v">> \o Format(v), parts |-> v] :
          v \in {w \in VersionPool : w.major = 1 /\ w.minor = 0}}
  \cup {[arg |-> cs, parts |-> NotSemVer(Str(cs))] : cs \in NoVersionStrings}

VersionInit ==
  /\ Untouched
  /\ \E in \in VersionInputs :
       app = [fn |-> "inc", arg |-> in.arg, parts |-> in.parts,
              once |-> <<>>, twice |-> <<>>, step |-> 0]

\* semver.inc(currentVersion, 'patch')
PatchOnce ==
  /\ app.fn = "inc" /\ app.step = 0
  /\ app' = [app EXCEPT !.once = SemverIncString(app.arg, "patch"),
                        !.step = 1]
  /\ UNCHANGED <<service, cli>>

\* semver.inc of the version the first bump returned
PatchAgain ==
  /\ app.fn = "inc" /\ app.step = 1
  /\ app' = [app EXCEPT !.twice = SemverIncString(app.once, "patch"),
                        !.step = 2]
  /\ UNCHANGED <<service, cli>>

VersionNext == PatchOnce \/ PatchAgain

VersionSpec == VersionInit /\ [][VersionNext]_vars

(***************************************************************************)
(* Properties                                                              *)
(***************************************************************************)
Called(op) == \E i \in 1..Len(calls) : calls[i].op = op
CountCalls(op) == Cardinality({i \in 1..Len(calls) : calls[i].op = op})
IndexOf(op) == CHOOSE i \in 1..Len(calls) : calls[i].op = op

Mutators == {"createTag", "createRelease", "pushTags"}
NoMutation == writes = <<>> /\ \A op \in Mutators : ~Called(op)

Done == pc = "done" /\ result.data.present
Failed == pc = "done" /\ result.error.kind = "OrbitItError"

\* version, tag name and notes a run computes from the configuration, the
\* working tree, the release type and the commits, whatever dryRun is
ExpectedRelease ==
  IF config.versioningStrategy = "fixed"
  THEN LET new == SemverInc(config.version, opts.type)
           tag == "v" \o VersionString(new)
       IN Data(new, tag, GenerateReleaseNotes(tag, run.commits))
  ELSE LET pkg == GetChangedPackages(disk, config.workspaces, run.commits)[1]
           new == SemverInc(pkg.version, opts.type)
           tag == pkg.name \o "@" \o VersionString(new)
       IN Data(new, tag, GenerateReleaseNotes(tag, run.commits))

\* C1: a dry run that reaches the dry-run check returns the version, tag
\* name and release notes that a run without dry-run computes from the same
\* inputs (the values such a run holds when it enters the bump), and makes
\* no manifest write and no createTag, createRelease or pushTags call.
C1_DryRunNoSideEffect ==
  /\ (opts.dryRun /\ run.computed) =>
       /\ strat = [error |-> NoError, data |-> ExpectedRelease]
       /\ pc \in {"return", "done"}
       /\ pc = "done" => result = [error |-> NoError, data |-> ExpectedRelease]
       /\ NoMutation
       /\ \A f \in Files : tasks[f] = "none"
  /\ (~opts.dryRun /\ pc = "bump") =>
       Data(run.newVersion, run.tagName, run.releaseNotes) = ExpectedRelease

C1_Witness ==
  /\ opts.dryRun /\ Done
  /\ config.versioningStrategy = "independent"
  /\ Len(run.commits) = 2

\* C2 (as claimed): once a manifest read, parse or write of the bump has
\* failed in a run without dry-run, createTag, createRelease and pushTags
\* are never invoked and the run ends Failed with the bump error.
C2_BumpFailureFailsRun ==
  (~opts.dryRun /\ \E f \in Files : tasks[f] = "failed") =>
    /\ \A op \in Mutators : ~Called(op)
    /\ pc = "done" => Failed /\ result.error = bumpResult

\* C3 (as claimed): when the current version is not parseable semver the
\* run yields no ReleaseResult, ends Failed, and makes no manifest write
\* and no createTag, createRelease or pushTags call.
C3_InvalidVersionFailsRun ==
  (run.computed /\ ~run.currentVersion.valid) =>
    /\ NoMutation
    /\ ~strat.data.present
    /\ pc = "done" => Failed

\* C4: when git log answers with no commit, the run (either strategy) ends
\* Failed with the error "No commits found", and no manifest write,
\* createTag, createRelease or pushTags has been performed.
C4_NoCommitsFailsRun ==
  run.logged = "empty" =>
    /\ pc \in {"return", "done"}
    /\ strat.error.kind = "OrbitItError"
    /\ strat.error.message = "No commits found"
    /\ ~strat.data.present
    /\ NoMutation
    /\ \A f \in Files : tasks[f] = "none"
    /\ pc = "done" =>
         Failed /\ result.error.message = "No commits found"
                /\ ~result.data.present

C4_Witness ==
  /\ run.logged = "empty" /\ Failed
  /\ config.versioningStrategy = "independent"

\* the calls of a run are in the order createTag, createRelease, pushTags,
\* each made once at most and each only after the one before it succeeded
PublicationInOrder ==
  /\ \A op \in Mutators : CountCalls(op) <= 1
  /\ Called("createRelease") =>
       /\ Called("createTag") /\ IndexOf("createTag") < IndexOf("createRelease")
       /\ run.tagName \in localTags
  /\ Called("pushTags") =>
       /\ Called("createRelease")
       /\ IndexOf("createRelease") < IndexOf("pushTags")
       /\ Len(releases) = 1

\* C5 (as claimed): in a run without dry-run the side effects come in the
\* order manifest bump, createTag, createRelease, pushTags: no manifest is
\* written once createTag has been invoked, createRelease is invoked only
\* after createTag succeeded, pushTags only after createRelease succeeded,
\* and each of the three is invoked at most once.
C5_SideEffectOrder ==
  [][/\ PublicationInOrder'
     /\ Called("createTag") => writes' = writes]_vars

\* C6: when createRelease fails, the run ends Failed with that failure as
\* the error execute returns, pushTags is not invoked, nothing is called
\* after the failed createRelease, and the local tag and the manifests the
\* run wrote stay as the run left them.
CreateReleaseFailed == releaseArgs.called /\ releases = <<>>

C6_PublishFailureNoRollback ==
  CreateReleaseFailed =>
    /\ pc \in {"return", "done"}
    /\ strat.error = OrbitItError("Validation Failed", ReleaseHint)
    /\ ~Called("pushTags")
    /\ calls[Len(calls)].op = "createRelease"
    /\ run.tagName \in localTags
    /\ \A i \in 1..Len(writes) :
         disk[writes[i]] = Bumped(disk0[writes[i]], run.newVersion)
    /\ pc = "done" =>
         /\ Failed
         /\ result.error.message = "Validation Failed"
         /\ ~result.data.present

C6_Witness ==
  CreateReleaseFailed /\ Failed /\ writes # <<>> /\ run.tagName \in localTags

\* execute has returned with exactly one of ReleaseResult and error
OneOutcome ==
  /\ result.error.kind \in {"none", "OrbitItError"}
  /\ result.data.present <=> result.error.kind = "none"

\* C7 (as claimed): execute ends in exactly one outcome, a ReleaseResult
\* without error or an OrbitItError without ReleaseResult, never neither;
\* and once that outcome is reached no step of the run is executed any
\* more: nothing the run reads or writes changes.
C7_OneTerminalOutcome ==
  /\ [](pc = "done" => OneOutcome)
  /\ [][pc = "done" => UNCHANGED vars]_vars

\* C8: when the credential check answers that the user is not
\* authenticated, the run ends Failed with "GitHub token is not valid";
\* the check was made once and nothing else was called or written.
C8_NotAuthenticatedFailsRun ==
  run.authenticated = "false" =>
    /\ Failed
    /\ result.error.message = "GitHub token is not valid"
    /\ ~result.data.present
    /\ calls = <<Call("checkUserIsAuthenticated", "")>>
    /\ writes = <<>>
    /\ \A f \in Files : tasks[f] = "none"

C8_Witness == run.authenticated = "false" /\ pc = "done"

\* C9: a fixed-strategy run that finds no tag does not fail there: it goes
\* on to list the commits with from undefined, and when there are commits
\* it computes the new version from config.project.version and the release
\* type.
C9_FirstReleaseFixed ==
  (config.versioningStrategy = "fixed" /\ run.tagsListed /\ run.allTags = {}) =>
    /\ run.latestTag = Undefined
    /\ pc = "getCommits" \/ Called("getCommits")
    /\ Called("getCommits") => calls[IndexOf("getCommits")].arg = Undefined
    /\ run.logged = "some" =>
         /\ pc # "fixedVersion" => run.computed
         /\ run.computed =>
              /\ run.newVersion = SemverInc(config.version, opts.type)
              /\ run.tagName = "v" \o VersionString(run.newVersion)

C9_Witness ==
  /\ config.versioningStrategy = "fixed" /\ run.tagsListed /\ run.allTags = {}
  /\ Done /\ ~opts.dryRun
  /\ result.data.version = "1.1.0"

\* the first configured workspace the changed files touch
FirstAffected ==
  config.workspaces[CHOOSE i \in 1..Len(config.workspaces) :
    /\ HasChangesInWorkspace(ChangedFiles(run.commits), config.workspaces[i])
    /\ \A j \in 1..(i - 1) :
         ~HasChangesInWorkspace(ChangedFiles(run.commits), config.workspaces[j])]

SeveralAffected ==
  Cardinality({i \in 1..Len(config.workspaces) :
     HasChangesInWorkspace(ChangedFiles(run.commits), config.workspaces[i])}) >= 2

NoneAffected ==
  \A i \in 1..Len(config.workspaces) :
    ~HasChangesInWorkspace(ChangedFiles(run.commits), config.workspaces[i])

PrescribedTagName(version) ==
  IF config.versioningStrategy = "fixed" THEN "v" \o version
  ELSE run.pkg.name \o "@" \o version

\* C12: once a run has computed its release, its tag name is "v" followed
\* by the new version in the fixed strategy and the package name, "@" and
\* the new version in the independent strategy, whatever the release type
\* and the current version; the new version is the increment of the
\* current one, and that tag name is the one returned, the one handed to
\* createTag and the one handed to createRelease.
C12_TagNameFormat ==
  run.computed =>
    /\ run.newVersion = SemverInc(run.currentVersion, opts.type)
    /\ run.tagName = PrescribedTagName(VersionString(run.newVersion))
    /\ config.versioningStrategy = "independent" =>
         run.pkg.name = PackageOf(disk0, run.pkg.workspace).name
    /\ strat.data.present =>
         strat.data.tagName = PrescribedTagName(strat.data.version)
    /\ Done => result.data.tagName = PrescribedTagName(result.data.version)
    /\ \A i \in 1..Len(calls) :
         calls[i].op \in {"createTag", "createRelease"} =>
           calls[i].arg = run.tagName
    /\ releaseArgs.called => releaseArgs.tagName = run.tagName

C12_Witness ==
  /\ Done /\ ~opts.dryRun /\ opts.type = "prerelease"
  /\ config.versioningStrategy = "fixed"
  /\ result.data.tagName = "v1.0.1-0"
  /\ run.tagName \in remoteTags

\* C13: the prerelease attribute handed to createRelease is true exactly
\* when the computed new version has a prerelease segment, and the draft
\* attribute is the caller's draft option, false when the option is left
\* out, whatever the version is; the published release carries the same
\* two attributes.
C13_PrereleaseAndDraft ==
  releaseArgs.called =>
    /\ releaseArgs.prerelease <=>
         (run.newVersion.valid /\ run.newVersion.prerelease # <<>>)
    /\ releaseArgs.draft <=> opts.draft = "true"
    /\ \A i \in 1..Len(releases) :
         /\ releases[i].prerelease = releaseArgs.prerelease
         /\ releases[i].draft = releaseArgs.draft

C13_Witness ==
  /\ Done /\ Len(releases) = 1
  /\ releases[1].prerelease /\ ~releases[1].draft
  /\ opts.draft = Undefined
  /\ config.versioningStrategy = "independent"

\* the process has ended after execute returned a ReleaseResult
Released == cli.exited /\ cli.failure = "none" /\ cli.executed

\* C14 (as claimed): the release command exits with code 0 only when the
\* release succeeded, and exits with code 1 when the configuration or the
\* environment cannot be loaded, when execute returns an error, and when
\* --ci is given without --type.
C14_ExitCodes ==
  cli.exited =>
    /\ cli.code = 0 => Released
    /\ cli.failure \in {"config", "env", "release", "missing-type"} =>
         cli.code = 1

\* C15 (as claimed): when the release command is invoked with --dry-run,
\* execute is called with dryRun = true, in CI mode and in interactive
\* mode, and the invocation makes no manifest write and no createTag,
\* createRelease or pushTags call.
C15_DryRunFlagHonoured ==
  (cli.flags.dryRun /\ cli.executed) => opts.dryRun /\ NoMutation

\* the types the pattern names
MatchedTypes ==
  {<<"f","e","a","t">>, <<"f","i","x">>, <<"d","o","c","s">>,
   <<"s","t","y","l","e">>, <<"r","e","f","a","c","t","o","r">>,
   <<"p","e","r","f">>, <<"t","e","s","t">>, <<"c","h","o","r","e">>}

\* a message made of one of the eight types at its very start, nothing or
\* a parenthesised scope, and a colon
Conventional(p) ==
  /\ p.prefix = <<>>
  /\ p.word \in MatchedTypes
  /\ p.scope \in {<<>>, <<"(","a",")">>, <<"(",")">>}
  /\ p.sep = <<":">>

\* C16: classification returns the literal type for every message that
\* starts with one of feat, fix, docs, style, refactor, perf, test, chore,
\* an optional parenthesised scope and a colon, and other for every other
\* message: revert:, a type in another case, a type that is not at the
\* start, a longer word, an unclosed or doubled scope, a missing colon.
C16_Classification ==
  (app.fn = "classify" /\ app.applied) =>
    app.out = IF Conventional(app.parts) THEN Str(app.parts.word) ELSE "other"

C16_Witness ==
  /\ app.fn = "classify" /\ app.applied
  /\ app.arg = <<"r","e","f","a","c","t","o","r","(","a",")",":"," ","x">>
  /\ app.out = "refactor"

\* position of a commit in a list without repetition
Pos(cs, c) == CHOOSE i \in 1..Len(cs) : cs[i] = c

\* the ten category keys
TenKeys ==
  {"feat", "fix", "docs", "style", "refactor", "perf", "test", "chore",
   "revert", "other"}

\* C17: groupCommitsByType returns all ten category keys for every input,
\* with every bucket empty for the empty input; each input commit is in
\* exactly one place of exactly one bucket, no bucket holds anything else,
\* and the commits of a bucket are in input order.
C17_GroupedBuckets ==
  (app.fn = "notes" /\ app.groupedDone) =>
    LET g == app.grouped
        cs == app.arg
    IN /\ DOMAIN g = TenKeys
       /\ cs = <<>> => \A t \in TenKeys : g[t] = <<>>
       /\ \A i \in 1..Len(cs) :
            Cardinality({tk \in TenKeys \X (1..Len(cs)) :
                           /\ tk[2] <= Len(g[tk[1]])
                           /\ g[tk[1]][tk[2]] = cs[i]}) = 1
       /\ \A t \in TenKeys : \A k \in 1..Len(g[t]) :
            \E i \in 1..Len(cs) : cs[i] = g[t][k]
       /\ \A t \in TenKeys : \A k, l \in 1..Len(g[t]) :
            k < l => Pos(cs, g[t][k]) < Pos(cs, g[t][l])

C17_Witness ==
  /\ app.fn = "notes" /\ app.groupedDone
  /\ app.arg = <<K5, K3, K1>>
  /\ app.grouped["feat"] = <<K5, K1>>
  /\ app.grouped["other"] = <<K3>>

\* place of a type in the fixed order of the sections
TypeIndex(t) == CHOOSE i \in 1..Len(CommitTypes) : CommitTypes[i] = t

\* the header a line of the notes stands under
HeaderOf(lines, p) ==
  CHOOSE h \in 1..(p - 1) :
    /\ lines[h].kind = "header"
    /\ \A k \in (h + 1)..(p - 1) : lines[k].kind # "header"

\* C18: generateReleaseNotes emits exactly one section for each commit
\* type that has a commit and none for a type without commits; the
\* sections come in the order feat, fix, docs, style, refactor, perf,
\* test, chore, revert, other; each input commit is listed once, under the
\* section of its type, and the commits of a section are in input order.
C18_NotesSections ==
  (app.fn = "notes" /\ app.linesDone) =>
    LET ls == app.lines
        cs == app.arg
        headers == {p \in 1..Len(ls) : ls[p].kind = "header"}
        bullets == {p \in 1..Len(ls) : ls[p].kind = "commit"}
    IN /\ CommitTypes = <<"feat", "fix", "docs", "style", "refactor", "perf",
                          "test", "chore", "revert", "other">>
       /\ \A p, q \in headers :
            p < q => TypeIndex(ls[p].type) < TypeIndex(ls[q].type)
       /\ {ls[p].type : p \in headers} =
            {ClassifyMessage(cs[i].message) : i \in 1..Len(cs)}
       /\ \A p \in headers : p + 1 \in bullets
       /\ \A p \in bullets :
            /\ \E h \in headers : h < p
            /\ ls[HeaderOf(ls, p)].type = ClassifyMessage(ls[p].commit.message)
            /\ \E i \in 1..Len(cs) : cs[i] = ls[p].commit
       /\ \A i \in 1..Len(cs) :
            Cardinality({p \in bullets : ls[p].commit = cs[i]}) = 1
       /\ \A p, q \in bullets :
            (p < q /\ HeaderOf(ls, p) = HeaderOf(ls, q)) =>
              Pos(cs, ls[p].commit) < Pos(cs, ls[q].commit)

C18_Witness ==
  /\ app.fn = "notes" /\ app.linesDone
  /\ app.arg = <<K3, K5, K1>>
  /\ app.lines = <<TitleLine, BlankLine, HeaderLine("feat"), CommitLine(K5),
                   CommitLine(K1), BlankLine, HeaderLine("other"),
                   CommitLine(K3), BlankLine>>

\* the patch bump was applied twice to a parseable version; the result
\* has the major and minor numbers of the argument and a patch number n
\* higher
PatchRaisedBy(n) ==
  LET r == Parse(app.twice)
  IN /\ r.valid
     /\ r.major = app.parts.major
     /\ r.minor = app.parts.minor
     /\ r.patch = app.parts.patch + n

\* C19 (as claimed): for every parseable current version, with or without
\* a prerelease segment, applying the patch bump twice yields a version
\* with the same major and minor numbers and a patch number exactly two
\* higher.
C19_PatchTwiceAnyVersion ==
  (app.fn = "inc" /\ app.step = 2 /\ app.parts.valid) => PatchRaisedBy(2)

\* C19 (amended): applying the patch bump twice to a parseable version
\* keeps the major and minor numbers and yields a version without
\* prerelease segment; the patch number is exactly two higher when the
\* version has no prerelease segment and exactly one higher when it has
\* one, because the first bump then only drops the segment.
C19_PatchTwice ==
  (app.fn = "inc" /\ app.step = 2 /\ app.parts.valid) =>
    /\ Parse(app.twice).prerelease = <<>>
    /\ Parse(app.once).valid
    /\ IF app.parts.prerelease = <<>> THEN PatchRaisedBy(2)
       ELSE PatchRaisedBy(1)

C19_Witness ==
  /\ app.fn = "inc" /\ app.step = 2
  /\ app.arg = <<"2",".","0",".","9","-","b","e","t","a",".","1">>
  /\ app.once = <<"2",".","0",".","9">>
  /\ app.twice = <<"2",".","0",".","1","0">>

\* config version 1.0.0, fixed strategy, no tag, the commits feat: x and
\* fix: y, release type minor
Scenario ==
  /\ config.versioningStrategy = "fixed"
  /\ config.version = SemVer(1, 0, 0, <<>>)
  /\ run.tagsListed /\ run.allTags = {}
  /\ run.commits = <<K1, K2>>
  /\ opts.type = "minor"

ScenarioNotes ==
  "## Release Notes for v1.1.0\n\n"
  \o "### :rocket: Features\n- feat: x by @ann\n\n"
  \o "### :bug: Bug Fixes\n- fix: y by @bob@x.io\n\n"

\* C20: with config version 1.0.0, the fixed strategy, no existing tag,
\* the commits "feat: x" and "fix: y" and release type minor, the run
\* computes version 1.1.0, tag name v1.1.0 and release notes made of a
\* Features section listing "feat: x" and a Bug Fixes section listing
\* "fix: y"; a run that ends Done returns exactly these.
C20_EndToEndScenario ==
  Scenario =>
    /\ pc \notin {"getCommits", "fixedVersion"} => run.computed
    /\ run.computed =>
         /\ VersionString(run.newVersion) = "1.1.0"
         /\ run.tagName = "v1.1.0"
         /\ run.releaseNotes = ScenarioNotes
         /\ NoteLines(run.commits) =
              <<TitleLine, BlankLine, HeaderLine("feat"), CommitLine(K1),
                BlankLine, HeaderLine("fix"), CommitLine(K2), BlankLine>>
    /\ Done =>
         result.data = [present |-> TRUE, version |-> "1.1.0",
                        tagName |-> "v1.1.0", releaseNotes |-> ScenarioNotes]

C20_Witness ==
  /\ Scenario /\ Done /\ ~opts.dryRun
  /\ "v1.1.0" \in remoteTags
  /\ Len(releases) = 1 /\ releases[1].body = ScenarioNotes

\* the file lies inside a directory the workspace entry designates: one
\* of the directories above the file is the path, or matches the glob
InsideWorkspace(file, workspace) ==
  \E k \in 1..(Len(file) - 1) :
    file[k + 1] = "/" /\ GlobMatch(workspace, SubSeq(file, 1, k))

\* C21 (as claimed): in the independent strategy a configured workspace is
\* in the changed set if and only if at least one file touched by the
\* listed commits lies inside a directory that the workspace entry, a path
\* or a glob, designates.
C21_AffectedByDirectory ==
  (config.versioningStrategy = "independent" /\ run.filesListed) =>
    LET files == ChangedFiles(run.commits)
        changed == GetChangedPackages(disk0, config.workspaces, run.commits)
    IN \A i \in 1..Len(config.workspaces) :
         (\E k \in 1..Len(changed) :
            changed[k].workspace = config.workspaces[i])
         <=> \E file \in files : InsideWorkspace(file, config.workspaces[i])

\* the workspaces whose files one bump batch is asked to update
BatchWorkspaces ==
  IF config.versioningStrategy = "fixed"
  THEN {config.workspaces[i] : i \in 1..Len(config.workspaces)}
  ELSE {run.pkg.workspace}

\* C22 (as claimed): in the Python bump, if some workspace of the batch
\* contains none of pyproject.toml, setup.py and __init__.py, the batch
\* fails with the "No Python version files found." error, also when other
\* workspaces of the same batch do contain such files.
C22_PythonWorkspaceWithoutFiles ==
  (/\ config.environment = "python"
   /\ Called("createTag")
   /\ \E w \in BatchWorkspaces : FastGlob(disk0, PythonFilesOf(w)) = {})
  => /\ bumpResult.kind = "OrbitItError"
     /\ bumpResult.message = "No Python version files found."

\* C23: in the manifest bump one failing task makes the bump method
\* report an OrbitItError, in the changed-file fetch one failing
\* getCommitFiles call makes the independent run end Failed with no
\* manifest write and no createTag, createRelease or pushTags; no item is
\* retried: a failed task stays failed, no file is written twice and
\* getCommitFiles is asked once per commit.
C23_OneFailureFailsBatch ==
  /\ []((pc \notin {"bump", "bumping"} /\ \E f \in Files : tasks[f] = "failed")
          => (bumpResult.kind = "OrbitItError" /\ bumpResult.content = BumpHint))
  /\ []((Called("getCommitFiles") /\ ~run.filesListed)
          => (NoMutation /\ pc \in {"return", "done"} /\ (pc = "done" => Failed)))
  /\ [](/\ \A i, j \in 1..Len(writes) : writes[i] = writes[j] => i = j
        /\ CountCalls("getCommitFiles") \in {0, Len(run.commits)})
  /\ [][\A f \in Files : tasks[f] \in {"failed", "done"} => tasks'[f] = tasks[f]]_vars

\* a task of the bump failed while another was still in flight, and the
\* bump method has reported
C23_Witness ==
  /\ pc = "createTag"
  /\ \E f, g \in Files : tasks[f] = "failed" /\ InFlight(g)

\* C28 (as claimed): createTag is not invoked while a manifest write of
\* the same run is still in flight: at the invocation every task of the
\* bump has completed.
C28_NoTagWhileWriting ==
  [][CountCalls("createTag")' > CountCalls("createTag")
       => \A f \in Files : ~InFlight(f)]_vars

\* C30: in every non-dry run that ends Done, the tag name handed to
\* createTag, the tagName and the releaseName handed to createRelease and
\* the tagName of the ReleaseResult are the same string, the body handed to
\* createRelease is the releaseNotes of the ReleaseResult, and the version
\* written to the manifests is the version of the ReleaseResult.
C30_OneReleaseIdentity ==
  (Done /\ ~opts.dryRun) =>
    /\ CountCalls("createTag") = 1
    /\ \A i \in 1..Len(calls) :
         calls[i].op = "createTag" => calls[i].arg = result.data.tagName
    /\ releaseArgs.called
    /\ releaseArgs.tagName = result.data.tagName
    /\ releaseArgs.releaseName = result.data.tagName
    /\ releaseArgs.body = result.data.releaseNotes
    /\ \A i \in 1..Len(writes) :
         disk[writes[i]].kind # "corrupt" =>
           VersionString(disk[writes[i]].version) = result.data.version

\* an independent run ended Done after writing a manifest and publishing
C30_Witness ==
  /\ Done /\ ~opts.dryRun
  /\ config.versioningStrategy = "independent"
  /\ writes # <<>> /\ disk[writes[1]].kind # "corrupt"
  /\ Len(releases) = 1 /\ run.tagName \in remoteTags

\* the client methods that only read
Readers ==
  {"checkUserIsAuthenticated", "getRepoInfo", "getTags", "getCommits",
   "getCommitFiles"}

\* C25: the only writes of a release run are manifest files, one local
\* tag, the tag push and one remote release: every client method invoked
\* is a reader, createTag, createRelease or pushTags (so addFiles,
\* commitChanges, pushChanges, createBranch and pushBranch are never
\* invoked), each of the three at most once; the files that differ from
\* the working tree the run started on are version files the bump wrote;
\* at most the run's tag is added locally, remote tags change only in
\* pushTags, and the configuration is never written.
C25_OnlyReleaseWrites ==
  /\ [](/\ \A i \in 1..Len(calls) : calls[i].op \in Readers \cup Mutators
        /\ \A op \in Mutators : CountCalls(op) <= 1
        /\ \A f \in Files :
             disk[f] # disk0[f] =>
               /\ \E i \in 1..Len(writes) : writes[i] = f
               /\ f \in FastGlob(disk0, BumpPatterns)
        /\ localTags \ remoteTags \subseteq {run.tagName}
        /\ Len(releases) <= 1)
  /\ [][/\ config' = config
        /\ localTags \subseteq localTags'
        /\ remoteTags' # remoteTags => pc = "pushTags"]_vars

\* a Python run ended Done after writing two version files, creating its
\* tag, publishing the release and pushing the tag
C25_Witness ==
  /\ Done /\ config.environment = "python"
  /\ Len(writes) = 2
  /\ \A op \in Mutators : CountCalls(op) = 1
  /\ run.tagName \in localTags \cap remoteTags

(***************************************************************************)
(* Several invocations of the release, one after the other, on the same    *)
(* repository, working tree and configuration: what an invocation leaves   *)
(* behind is what the next one finds.                                      *)
(***************************************************************************)
MaxRuns == 2

RerunConfigs ==
  [versioningStrategy : {"fixed", "independent"}, environment : {"nodejs"},
   version : {SemVer(1, 0, 0, <<>>)}, workspaces : {<<DirA>>}]

NoFirst == [seen |-> FALSE, version |-> MissingVersion, tagName |-> ""]

RerunInit ==
  /\ config \in RerunConfigs
  /\ disk = CliDisk
  /\ localTags \in {{}, {"v1.1.0"}}
  /\ ServiceIdle
  /\ cli = CliOff
  /\ app = [fn |-> "rerun", runs |-> 1, first |-> [t \in ReleaseTypes |-> NoFirst],
            kept |-> {}]

\* the invocation has returned and its tasks have ended; the release is
\* invoked again: a new ReleaseService is constructed over the same
\* configuration, and the repository and the working tree are as the
\* invocation before left them
Restart ==
  /\ app.fn = "rerun" /\ app.runs < MaxRuns
  /\ pc = "done"
  /\ \A f \in Files : ~InFlight(f)
  /\ app' = [app EXCEPT
               !.runs = @ + 1,
               !.first = IF run.computed /\ ~@[opts.type].seen
                         THEN [@ EXCEPT ![opts.type] =
                                 [seen |-> TRUE, version |-> run.newVersion,
                                  tagName |-> run.tagName]]
                         ELSE @,
               !.kept = @ \cup (localTags \ remoteTags)]
  /\ disk0' = disk
  /\ pc' = "idle"
  /\ opts' = [type |-> "patch", draft |-> Undefined, dryRun |-> FALSE]
  /\ calls' = <<>>
  /\ writes' = <<>>
  /\ tasks' = [f \in Files |-> "none"]
  /\ bumpResult' = NoError
  /\ run' = NoRun
  /\ releaseArgs' = NoReleaseArgs
  /\ strat' = NoResult
  /\ result' = NoResult
  /\ UNCHANGED <<cli, config, disk, localTags, remoteTags, releases>>

\* the invocations looked at leave release.draft out
RerunStart == StartRun /\ opts'.draft = Undefined

\* git log answers with the two newest commits
RerunCommits == GetCommits /\ run'.commits \in {<<>>, <<K1, K2>>}

RerunNext ==
  \/ Restart
  \/ RerunStart
  \/ Authenticate
  \/ GetRepoInfo
  \/ GetTags
  \/ RerunCommits
  \/ FixedVersion
  \/ ChangedPackages
  \/ BumpStart
  \/ \E f \in Files : TaskRead(f)
  \/ \E f \in Files : TaskWrite(f)
  \/ BumpSettle
  \/ CreateTag
  \/ CreateRelease
  \/ PushTags
  \/ ExecuteReturn

RerunSpec == RerunInit /\ [][RerunNext]_vars

\* createTag succeeded in this invocation and createRelease then failed
TagThenFailure ==
  /\ pc \in {"return", "done"}
  /\ Called("createRelease") /\ ~Called("pushTags")

\* C24: if createTag succeeds and createRelease then fails, the tag is in
\* the local tag set and not on the remote; no later step and no later
\* invocation deletes a tag, so the tags left unpushed by earlier
\* invocations are still there; and an invocation that reaches the tag
\* step lists the tags once, for the latest tag, and leaves the step only
\* by invoking createTag, whatever tags exist.
C24_LocalTagLeftBehind ==
  /\ [](TagThenFailure =>
          (run.tagName \in localTags /\ run.tagName \notin remoteTags))
  /\ [](app.kept \subseteq localTags /\ CountCalls("getTags") <= 1)
  /\ [][/\ localTags \subseteq localTags'
        /\ (pc = "createTag" /\ pc' # pc) =>
             (calls' = Append(calls, Call("createTag", run.tagName)))]_vars

\* a second invocation calls createTag with the name of a tag that the
\* first one created and left unpushed
C24_Witness ==
  /\ app.runs = 2
  /\ \E i \in 1..Len(calls) :
       calls[i].op = "createTag" /\ calls[i].arg \in app.kept
  /\ app.kept \cap remoteTags = {}

\* C29: in the fixed strategy the computed version is the increment of
\* the configured project version by the release type and the tag name is
\* "v" followed by it, whatever tags exist; no step changes the
\* configuration, and a fixed invocation computes the version and the tag
\* name that the first invocation with the same release type computed.
C29_FixedVersionFromConfig ==
  /\ []((config.versioningStrategy = "fixed" /\ run.computed) =>
          /\ run.newVersion = SemverInc(config.version, opts.type)
          /\ run.tagName = "v" \o VersionString(run.newVersion)
          /\ app.first[opts.type].seen =>
               /\ run.newVersion = app.first[opts.type].version
               /\ run.tagName = app.first[opts.type].tagName)
  /\ [][config' = config]_vars

\* a later fixed invocation finds the tag that the first invocation with
\* the same release type created, and has computed its release
C29_Witness ==
  /\ config.versioningStrategy = "fixed" /\ run.computed
  /\ app.runs > 1 /\ app.first[opts.type].seen
  /\ run.latestTag = app.first[opts.type].tagName

(***************************************************************************)
(* GitClient.getRepoInfo applied to a remote URL, character by character   *)
(***************************************************************************)
GithubCom == <<"g", "i", "t", "h", "u", "b", ".", "c", "o", "m">>

\* the positions where github\.com[:/] matches
HostMatches(url) ==
  {p \in 1..(Len(url) - 10) :
     SubSeq(url, p, p + 9) = GithubCom /\ url[p + 10] \in {":", "/"}}

\* the positions of the "/" between (.+) and (.+) when the first group
\* starts at a: at least one character before it and one after it
GroupSlashes(url, a) == {j \in (a + 1)..(Len(url) - 1) : url[j] = "/"}

Least(S) == CHOOSE x \in S : \A y \in S : x <= y
Greatest(S) == CHOOSE x \in S : \A y \in S : y <= x

\* remoteUrl.match(/github\.com[:/](.+)\/(.+)(\.git)?$/): the leftmost
\* match; the first group is greedy, so it ends at the last "/" that leaves
\* a character for the second group, and the second group, greedy too,
\* runs to the end of the string
RemoteUrlRegex(url) ==
  LET starts == {p \in HostMatches(url) : GroupSlashes(url, p + 11) # {}} IN
  IF starts = {} THEN [matched |-> FALSE, g1 |-> <<>>, g2 |-> <<>>]
  ELSE LET a == Least(starts) + 11
           j == Greatest(GroupSlashes(url, a))
       IN [matched |-> TRUE, g1 |-> SubSeq(url, a, j - 1),
           g2 |-> SubSeq(url, j + 1, Len(url))]

DotGit == <<".", "g", "i", "t">>

\* s.replace(/\.git$/, '')
RemoveGitFromUrlRegex(s) ==
  IF Len(s) >= 4 /\ SubSeq(s, Len(s) - 3, Len(s)) = DotGit
  THEN SubSeq(s, 1, Len(s) - 4) ELSE s

\* getRepoInfo on the URL of the first remote
RepoInfoOf(url) ==
  LET match == RemoteUrlRegex(url) IN
  IF ~match.matched
  THEN [thrown |-> OrbitItError("Invalid remote URL format",
                    "The remote URL does not match the expected GitHub format."),
        owner |-> <<>>, repo |-> <<>>]
  ELSE [thrown |-> NoError, owner |-> match.g1,
        repo |-> RemoveGitFromUrlRegex(match.g2)]

\* remote URLs, built from what stands before the host, the host, the
\* separator, the owner, a slash or none, and the repository
UrlParts ==
  [prefix : {<<>>, <<"h", "t", "t", "p", "s", ":", "/", "/">>, <<"g", "i", "t", "@">>},
   host : {GithubCom, <<"g", "i", "t", "h", "u", "b", "x", "c", "o", "m">>},
   sep : {<<":">>, <<"/">>, <<>>},
   owner : {<<"o">>, <<>>, <<"o", "/", "p">>},
   slash : {<<"/">>, <<>>},
   repo : {<<"r">>, <<"r", ".", "g", "i", "t">>, DotGit, <<>>, <<"r", "/">>}]

UrlOf(p) == p.prefix \o p.host \o p.sep \o p.owner \o p.slash \o p.repo

NoRepoInfo == [thrown |-> NoError, owner |-> <<>>, repo |-> <<>>]

RepoInit ==
  /\ Untouched
  /\ \E p \in UrlParts :
       app = [fn |-> "repo", arg |-> UrlOf(p), out |-> NoRepoInfo,
              applied |-> FALSE]

\* getRepoInfo is invoked
RepoInfo ==
  /\ app.fn = "repo" /\ ~app.applied
  /\ app' = [app EXCEPT !.out = RepoInfoOf(app.arg), !.applied = TRUE]
  /\ UNCHANGED <<config, disk, disk0, localTags, remoteTags, releases, pc,
                 opts, calls, writes, tasks, bumpResult, run, releaseArgs,
                 strat, result, cli>>

RepoSpec == RepoInit /\ [][RepoInfo]_vars

\* C26 (as claimed): for every remote URL string, getRepoInfo either fails
\* with "Invalid remote URL format" or returns an owner and a repo that
\* are both non-empty.
C26_OwnerAndRepoNonEmpty ==
  (app.fn = "repo" /\ app.applied) =>
    \/ /\ app.out.thrown.kind = "OrbitItError"
       /\ app.out.thrown.message = "Invalid remote URL format"
    \/ /\ app.out.thrown.kind = "none"
       /\ app.out.owner # <<>>
       /\ app.out.repo # <<>>

(***************************************************************************)
(* ConfigService: get and loadConfig, called one after the other as the    *)
(* release command and createReleaseService do, while the configuration    *)
(* file may be created, edited, deleted or duplicated at any moment.       *)
(***************************************************************************)
MaxGets == 3

\* what the working directory holds: no configuration file, one file with
\* a valid configuration (A or B), one file that fails the schema, one
\* file that is not JSON, or several configuration files
FileStates == {"none", "A", "B", "invalid", "broken", "several"}

NoGet == [error |-> NoError, data |-> Undefined]

ConfigInit ==
  /\ Untouched
  /\ \E file \in FileStates :
       app = [fn |-> "config", cache |-> Undefined, file |-> file,
              pos |-> "idle", last |-> NoGet, gets |-> 0, loads |-> 0,
              first |-> Undefined, searched |-> 0]

\* the ConfigService has no part in the state of a release
ServiceUntouched ==
  UNCHANGED <<config, disk, disk0, localTags, remoteTags, releases, pc,
              opts, calls, writes, tasks, bumpResult, run, releaseArgs,
              strat, result, cli>>

\* get returns a FunctionResult
GetReturns(error, data) ==
  [app EXCEPT !.pos = "idle", !.last = [error |-> error, data |-> data],
              !.first = IF @ = Undefined THEN data ELSE @]

\* get is invoked: if (this.config) return it, else loadConfig is called
GetStart ==
  /\ app.fn = "config" /\ app.pos = "idle" /\ app.gets < MaxGets
  /\ app' = IF app.cache # Undefined
            THEN [GetReturns(NoError, app.cache) EXCEPT !.gets = @ + 1]
            ELSE [app EXCEPT !.pos = "search", !.gets = @ + 1, !.loads = @ + 1]
  /\ ServiceUntouched

\* what a step of loadConfig adds to the count of file accesses made
\* after a get has returned a configuration
Searched == IF app.first # Undefined THEN app.searched + 1 ELSE app.searched

\* loadConfig: await fg(...); no entry or several entries are thrown,
\* returned as the error and thrown again by get
LoadSearch ==
  /\ app.fn = "config" /\ app.pos = "search"
  /\ app' = [(CASE app.file = "none" ->
                    GetReturns(OrbitItError("No configuration file found",
                                 "Run orbit-it init or see the documentation for more information."),
                               Undefined)
                [] app.file = "several" ->
                    GetReturns(OrbitItError("Multiple configuration files found",
                                 "Found multiple configuration files"),
                               Undefined)
                [] OTHER -> [app EXCEPT !.pos = "read"])
              EXCEPT !.searched = Searched]
  /\ ServiceUntouched

\* a get that forgets the configuration it loaded
CacheAfterLoadNothing(found) == Undefined

\* this.config = foundConfig.data
CacheAfterLoad(found) == found.data

\* loadConfig: await readJsonFile(entries[0]), safeParse; on success
\* this.config = data, with data still undefined, then data =
\* parsedConfig.data; get then caches what loadConfig returned
LoadRead ==
  /\ app.fn = "config" /\ app.pos = "read"
  /\ LET found ==
           CASE app.file = "none" ->
                  [error |-> CatchError(PlainError("ENOENT"),
                                        "An unexpected error occurred."),
                   data |-> Undefined]
             [] app.file = "broken" ->
                  [error |-> CatchError(PlainError("SyntaxError"),
                                        "An unexpected error occurred."),
                   data |-> Undefined]
             [] app.file = "invalid" ->
                  [error |-> OrbitItError("Invalid configuration file", "issues"),
                   data |-> Undefined]
             [] app.file = "several" -> [error |-> NoError, data |-> "A"]
             [] OTHER -> [error |-> NoError, data |-> app.file]
     IN app' = IF found.error.kind # "none"
               THEN [GetReturns(found.error, Undefined)
                       EXCEPT !.searched = Searched]
               ELSE [GetReturns(NoError, found.data)
                       EXCEPT !.searched = Searched,
                              !.cache = CacheAfterLoad(found)]
  /\ ServiceUntouched

\* the configuration file is created, edited, deleted or duplicated
FileChange ==
  /\ app.fn = "config"
  /\ \E file \in FileStates \ {app.file} : app' = [app EXCEPT !.file = file]
  /\ ServiceUntouched

ConfigNext ==
  \/ GetStart
  \/ LoadSearch
  \/ LoadRead
  \/ FileChange

ConfigSpec == ConfigInit /\ [][ConfigNext]_vars

\* C27: once a get has returned a configuration, the cache holds it and
\* every later get returns that configuration at once, with no search for
\* and no read of a file, whatever has become of the file; as long as no
\* get has returned a configuration nothing is cached, and every get so
\* far went into loadConfig.
C27_LoadedOnce ==
  app.fn = "config" =>
    /\ app.first # Undefined =>
         /\ app.cache = app.first
         /\ app.pos = "idle"
         /\ app.last = [error |-> NoError, data |-> app.first]
         /\ app.searched = 0
    /\ app.first = Undefined =>
         /\ app.cache = Undefined
         /\ app.loads = app.gets
         /\ app.pos = "idle" /\ app.gets > 0 => app.last.error.kind = "OrbitItError"

\* a get failed, the next one loaded configuration A, the file was then
\* replaced, and the last get still returned A without a second load
C27_Witness ==
  /\ app.fn = "config" /\ app.gets = 3 /\ app.loads = 2
  /\ app.first = "A" /\ app.file = "B" /\ app.pos = "idle"
  /\ app.last.data = "A"

====
